---- MODULE Spec2Model ----
(***************************************************************************)
(* Model of the chainpe-backend payment-validator glue code:               *)
(*   - contracts/payment_validator/deploy.py          (SDK deployment)     *)
(*   - contracts/payment_validator/deploy_contract.py (CLI upload+deploy)  *)
(*   - contracts/payment_validator/deploy_simple.py   (CLI deploy)         *)
(*   - app/services/soroban_validator.py              (service facade)     *)
(* One behaviour is one run of one of the three scripts, or one life of    *)
(* the service object (a sequence of calls on it).  Every call to the      *)
(* ledger, the CLI or the file system is a step whose response is chosen   *)
(* by the environment.                                                     *)
(***************************************************************************)
EXTENDS Integers, Sequences, FiniteSets, TLC

VARIABLES
    prog,            \* which program this behaviour runs
    pc,              \* position in the script ("idle" for the service)
    i,               \* deploy.py: index of the upload polling loop (line 85)
    j,               \* deploy.py: index of the creation polling loop (line 120)
    polls1,          \* get_transaction(response.hash) calls made so far
    polls2,          \* get_transaction(response2.hash) calls for the current response2
    sends1,          \* send_transaction(prepared_tx) calls made so far
    sends2,          \* send_transaction(prepared_tx2) calls made so far
    status1,         \* last status the ledger reported for the upload transaction
    status2,         \* last status the ledger reported for the current creation transaction
    first1,          \* how the first SUCCESS report of the upload transaction came about
    fault2,          \* a call of the creation steps other than a status poll has raised
    exc,             \* exception raised by the latest step ("none" when it raised nothing)
    exitCode,        \* exit status of the process (-1 while it runs)
    outcome,         \* what the script printed last / how it ended
    ret,             \* value returned by deploy_contract()
    contract_id,     \* SorobanValidatorService.contract_id
    backend_keypair, \* SorobanValidatorService.backend_keypair
    call             \* the latest call on the service and its result

vars == <<prog, pc, i, j, polls1, polls2, sends1, sends2, status1, status2,
          first1, fault2, exc, exitCode, outcome, ret, contract_id, backend_keypair, call>>

scriptVars == <<pc, i, j, polls1, polls2, sends1, sends2, status1, status2,
                first1, fault2, exc, exitCode, outcome, ret>>

serviceVars == <<contract_id, backend_keypair, call>>

-----------------------------------------------------------------------------
(* deploy.py *)

\* Mutant: the upload loop runs one attempt too many
UploadAttemptsOffByOne == 60 + 1

\* range(60) of the upload polling loop
UploadAttempts == 60

\* range(60) of the contract-creation polling loop
DeployAttempts == 60

\* GetTransactionStatus values
Statuses == {"NOT_FOUND", "SUCCESS", "FAILED"}

\* What one get_transaction call can answer for a transaction whose last
\* reported status is st: a status, or a raised query error.  A transaction
\* that reached SUCCESS or FAILED on the ledger keeps that status.
PollResults(st) ==
    IF st = "NOT_FOUND" THEN Statuses \cup {"ERROR"} ELSE {st, "ERROR"}

\* Mutant: the SUCCESS test is lost, a SUCCESS report counts as still pending
StatusBranchNoSuccess(st) ==
    CASE st = "FAILED" -> "failed"
      [] OTHER         -> "pending"

\* The if/elif on tx_response.status
StatusBranch(st) ==
    CASE st = "SUCCESS" -> "success"
      [] st = "FAILED"  -> "failed"
      [] OTHER          -> "pending"

\* Mutant: a bare `except:` that also catches SystemExit
CatchesBareExcept(e) == TRUE

\* `except Exception` catches every exception class but SystemExit (exit(1))
Catches(e) == e \in {"Exception", "PrepareTransactionException", "CalledProcessError"}

\* exit(code): SystemExit passes every `except Exception` up to the interpreter
SysExit(code, why) ==
    /\ pc' = "done"
    /\ exitCode' = code
    /\ outcome' = why

\* __main__: an exception escaping deploy_contract is printed with its traceback
\* and the script then runs off its end
MainExcept ==
    /\ pc' = "done"
    /\ exitCode' = 0
    /\ outcome' = "deployment_failed_printed"

\* __main__: deploy_contract returned r
MainReturn(r) ==
    /\ pc' = "done"
    /\ exitCode' = 0
    /\ ret' = r
    /\ outcome' = IF r # "None" THEN "deployment_complete" ELSE "silent"

\* End of one iteration of the upload loop: sleep, print ".", next i or timeout
NextUploadAttempt ==
    /\ i' = i + 1
    /\ IF i + 1 < UploadAttempts
          THEN pc' = "poll" /\ UNCHANGED <<exitCode, outcome>>
          ELSE SysExit(1, "timeout")

\* The try/except around the body of the upload loop, for an exception e raised
\* anywhere in that body
UploadLoopExcept(e, why) ==
    IF Catches(e) THEN NextUploadAttempt
    ELSE /\ SysExit(1, why)
         /\ UNCHANGED i

GetDeployerKeypair ==
    /\ prog = "deploy" /\ pc = "keys"
    /\ \E r \in {"ok", "CalledProcessError", "Exception"} :
         /\ exc' = IF r = "ok" THEN "none" ELSE r
         /\ IF r = "ok"
               THEN pc' = "check_wasm" /\ UNCHANGED <<exitCode, outcome>>
               ELSE SysExit(1, "key_error")
    /\ UNCHANGED <<prog, i, j, polls1, polls2, sends1, sends2, status1, status2,
                   first1, fault2, ret>>
    /\ UNCHANGED serviceVars

CheckWasm ==
    /\ prog = "deploy" /\ pc = "check_wasm"
    /\ \E exists \in BOOLEAN :
         IF exists
            THEN pc' = "read_wasm" /\ UNCHANGED <<exitCode, outcome>>
            ELSE SysExit(1, "wasm_missing")
    /\ exc' = "none"
    /\ UNCHANGED <<prog, i, j, polls1, polls2, sends1, sends2, status1, status2,
                   first1, fault2, ret>>
    /\ UNCHANGED serviceVars

ReadWasm ==
    /\ prog = "deploy" /\ pc = "read_wasm"
    /\ \E r \in {"ok", "Exception"} :
         /\ exc' = IF r = "ok" THEN "none" ELSE r
         /\ IF r = "ok"
               THEN pc' = "load_account" /\ UNCHANGED <<exitCode, outcome>>
               ELSE MainExcept
    /\ UNCHANGED <<prog, i, j, polls1, polls2, sends1, sends2, status1, status2,
                   first1, fault2, ret>>
    /\ UNCHANGED serviceVars

LoadAccount ==
    /\ prog = "deploy" /\ pc = "load_account"
    /\ \E r \in {"ok", "Exception"} :
         /\ exc' = IF r = "ok" THEN "none" ELSE r
         /\ IF r = "ok"
               THEN pc' = "prepare" /\ UNCHANGED <<exitCode, outcome>>
               ELSE MainExcept
    /\ UNCHANGED <<prog, i, j, polls1, polls2, sends1, sends2, status1, status2,
                   first1, fault2, ret>>
    /\ UNCHANGED serviceVars

Prepare ==
    /\ prog = "deploy" /\ pc = "prepare"
    /\ \E r \in {"ok", "PrepareTransactionException", "Exception"} :
         /\ exc' = IF r = "ok" THEN "none" ELSE r
         /\ CASE r = "ok" -> pc' = "send" /\ UNCHANGED <<exitCode, outcome>>
              [] r = "PrepareTransactionException" -> SysExit(1, "prepare_error")
              [] OTHER -> MainExcept
    /\ UNCHANGED <<prog, i, j, polls1, polls2, sends1, sends2, status1, status2,
                   first1, fault2, ret>>
    /\ UNCHANGED serviceVars

Send ==
    /\ prog = "deploy" /\ pc = "send"
    /\ sends1' = sends1 + 1
    /\ \E r \in {"ok", "Exception"} :
         /\ exc' = IF r = "ok" THEN "none" ELSE r
         /\ IF r = "ok"
               THEN pc' = "poll" /\ UNCHANGED <<exitCode, outcome>>
               ELSE MainExcept
    /\ UNCHANGED <<prog, i, j, polls1, polls2, sends2, status1, status2,
                   first1, fault2, ret>>
    /\ UNCHANGED serviceVars

\* History of the upload polls up to the first SUCCESS report: "clean" when
\* every earlier poll answered NOT_FOUND, "tainted" when one raised
FirstSuccess(f, r) ==
    CASE f = "none" /\ r = "SUCCESS" -> "clean"
      [] f = "none" /\ r = "ERROR"   -> "tainted"
      [] OTHER                       -> f

\* One iteration of `for i in range(60)` up to the status test
Poll ==
    /\ prog = "deploy" /\ pc = "poll"
    /\ polls1' = polls1 + 1
    /\ \E r \in PollResults(status1) :
         /\ status1' = IF r = "ERROR" THEN status1 ELSE r
         /\ first1' = FirstSuccess(first1, r)
         /\ CASE r = "ERROR" ->
                   /\ exc' = "Exception"
                   /\ UploadLoopExcept("Exception", "tx_failed")
              [] r # "ERROR" /\ StatusBranch(r) = "success" ->
                   /\ exc' = "none"
                   /\ pc' = "load2"
                   /\ UNCHANGED <<i, exitCode, outcome>>
              [] r # "ERROR" /\ StatusBranch(r) = "failed" ->
                   /\ exc' = "SystemExit"
                   /\ UploadLoopExcept("SystemExit", "tx_failed")
              [] OTHER ->
                   /\ exc' = "none"
                   /\ NextUploadAttempt
    /\ UNCHANGED <<prog, j, polls2, sends1, sends2, status2, fault2, ret>>
    /\ UNCHANGED serviceVars

\* horizon_server.load_account inside the SUCCESS branch
Load2 ==
    /\ prog = "deploy" /\ pc = "load2"
    /\ \E r \in {"ok", "Exception"} :
         /\ exc' = IF r = "ok" THEN "none" ELSE r
         /\ fault2' = (fault2 \/ r # "ok")
         /\ IF r = "ok"
               THEN pc' = "prepare2" /\ UNCHANGED <<i, exitCode, outcome>>
               ELSE UploadLoopExcept(r, "tx_failed")
    /\ UNCHANGED <<prog, j, polls1, polls2, sends1, sends2, status1, status2,
                   first1, ret>>
    /\ UNCHANGED serviceVars

\* soroban_server.prepare_transaction(tx2), then sign
Prepare2 ==
    /\ prog = "deploy" /\ pc = "prepare2"
    /\ \E r \in {"ok", "PrepareTransactionException", "Exception"} :
         /\ exc' = IF r = "ok" THEN "none" ELSE r
         /\ fault2' = (fault2 \/ r # "ok")
         /\ IF r = "ok"
               THEN pc' = "send2" /\ UNCHANGED <<i, exitCode, outcome>>
               ELSE UploadLoopExcept(r, "tx_failed")
    /\ UNCHANGED <<prog, j, polls1, polls2, sends1, sends2, status1, status2,
                   first1, ret>>
    /\ UNCHANGED serviceVars

\* soroban_server.send_transaction(prepared_tx2); a new response2 starts pending
Send2 ==
    /\ prog = "deploy" /\ pc = "send2"
    /\ sends2' = sends2 + 1
    /\ \E r \in {"ok", "Exception"} :
         /\ exc' = IF r = "ok" THEN "none" ELSE r
         /\ fault2' = (fault2 \/ r # "ok")
         /\ IF r = "ok"
               THEN /\ pc' = "poll2"
                    /\ j' = 0
                    /\ polls2' = 0
                    /\ status2' = "NOT_FOUND"
                    /\ UNCHANGED <<i, exitCode, outcome>>
               ELSE /\ UploadLoopExcept(r, "tx_failed")
                    /\ UNCHANGED <<j, polls2, status2>>
    /\ UNCHANGED <<prog, polls1, sends1, status1, first1, ret>>
    /\ UNCHANGED serviceVars

\* One iteration of `for j in range(60)`; it has no try of its own, so what it
\* raises reaches the try of the upload loop.  The inner loop is then left for
\* good: response2 is dropped and j is rebound by the next `for j`, so both
\* counters of the dropped transaction read 0 from there on.
Poll2 ==
    /\ prog = "deploy" /\ pc = "poll2"
    /\ \E r \in PollResults(status2) :
         /\ status2' = IF r = "ERROR" THEN status2 ELSE r
         /\ CASE r = "ERROR" ->
                   /\ exc' = "Exception"
                   /\ UploadLoopExcept("Exception", "deploy_failed")
                   /\ IF Catches("Exception")
                         THEN j' = 0 /\ polls2' = 0
                         ELSE j' = j /\ polls2' = polls2 + 1
                   /\ UNCHANGED ret
              [] r # "ERROR" /\ StatusBranch(r) = "success" ->
                   /\ exc' = "none"
                   /\ polls2' = polls2 + 1
                   /\ MainReturn("hash2")
                   /\ UNCHANGED <<i, j>>
              [] r # "ERROR" /\ StatusBranch(r) = "failed" ->
                   /\ exc' = "SystemExit"
                   /\ polls2' = polls2 + 1
                   /\ UploadLoopExcept("SystemExit", "deploy_failed")
                   /\ UNCHANGED <<j, ret>>
              [] OTHER ->
                   /\ exc' = "none"
                   /\ polls2' = polls2 + 1
                   /\ j' = j + 1
                   /\ IF j + 1 < DeployAttempts
                         THEN /\ pc' = "poll2"
                              /\ UNCHANGED <<exitCode, outcome, ret>>
                         ELSE MainReturn("None")
                   /\ UNCHANGED i
    /\ UNCHANGED <<prog, polls1, sends1, sends2, status1, first1, fault2>>
    /\ UNCHANGED serviceVars

-----------------------------------------------------------------------------
(* deploy_contract.py and deploy_simple.py *)

\* The script runs off its end after printing `why`: exit status 0
ScriptEnd(why) ==
    /\ pc' = "done"
    /\ exitCode' = 0
    /\ outcome' = why

\* deploy_contract.py: os.path.exists(WASM_PATH)
DcCheckWasm ==
    /\ prog = "deploy_contract" /\ pc = "dc_check"
    /\ \E exists \in BOOLEAN :
         IF exists
            THEN pc' = "dc_upload" /\ UNCHANGED <<exitCode, outcome>>
            ELSE SysExit(1, "wasm_missing")
    /\ exc' = "none"
    /\ UNCHANGED <<prog, i, j, polls1, polls2, sends1, sends2, status1, status2,
                   first1, fault2, ret>>
    /\ UNCHANGED serviceVars

\* deploy_contract.py: `stellar contract upload` (subprocess.run without check)
DcUpload ==
    /\ prog = "deploy_contract" /\ pc = "dc_upload"
    /\ \E r \in {"ok", "nonzero", "Exception"} :
         /\ exc' = IF r = "Exception" THEN r ELSE "none"
         /\ CASE r = "ok"      -> pc' = "dc_deploy" /\ UNCHANGED <<exitCode, outcome>>
              [] r = "nonzero" -> ScriptEnd("install_error")
              [] OTHER         -> ScriptEnd("error_printed")
    /\ UNCHANGED <<prog, i, j, polls1, polls2, sends1, sends2, status1, status2,
                   first1, fault2, ret>>
    /\ UNCHANGED serviceVars

\* deploy_contract.py: `stellar contract deploy` (subprocess.run without check)
DcDeploy ==
    /\ prog = "deploy_contract" /\ pc = "dc_deploy"
    /\ \E r \in {"ok", "nonzero", "Exception"} :
         /\ exc' = IF r = "Exception" THEN r ELSE "none"
         /\ CASE r = "ok"      -> ScriptEnd("deployed")
              [] r = "nonzero" -> ScriptEnd("deploy_error")
              [] OTHER         -> ScriptEnd("error_printed")
    /\ UNCHANGED <<prog, i, j, polls1, polls2, sends1, sends2, status1, status2,
                   first1, fault2, ret>>
    /\ UNCHANGED serviceVars

\* deploy_simple.py: `stellar contract deploy` (subprocess.run with check=True)
DsDeploy ==
    /\ prog = "deploy_simple" /\ pc = "ds_deploy"
    /\ \E r \in {"ok", "CalledProcessError", "Exception"} :
         /\ exc' = IF r = "ok" THEN "none" ELSE r
         /\ CASE r = "ok"                 -> ScriptEnd("deployed")
              [] r = "CalledProcessError" -> ScriptEnd("cli_error")
              [] OTHER                    -> ScriptEnd("error_printed")
    /\ UNCHANGED <<prog, i, j, polls1, polls2, sends1, sends2, status1, status2,
                   first1, fault2, ret>>
    /\ UNCHANGED serviceVars

-----------------------------------------------------------------------------
(* app/services/soroban_validator.py *)

\* Longest sequence of calls made on one service object
MaxCalls == 3

SessionIds == {"sess-1", "sess-2"}
Merchants  == {"GMERCHANT"}
Amounts    == {"10.00", "0.5", "abc", "inf", "nan"}
Assets     == {"USDC", "XLM"}

\* Responses of horizon_server.load_account
LoadResponses == {"ok", "NotFoundError", "ConnectionError"}

\* Python truthiness of contract_id (None and "" are falsy)
Truthy(v) == v \notin {"None", ""}

\* float(amount): the value in stroops (1e-7 units) for a finite decimal
FloatOf(a) ==
    CASE a = "10.00" -> [kind |-> "finite", stroops |-> 100000000]
      [] a = "0.5"   -> [kind |-> "finite", stroops |-> 5000000]
      [] a = "inf"   -> [kind |-> "inf", stroops |-> 0]
      [] a = "nan"   -> [kind |-> "nan", stroops |-> 0]
      [] OTHER       -> [kind |-> "ValueError", stroops |-> 0]

\* Mutant: int() of an infinite float taken to return
StroopsRaisesNoOverflow(a) ==
    CASE FloatOf(a).kind \in {"finite", "inf"} -> "none"
      [] OTHER                                 -> "ValueError"

\* int(float(amount) * 10_000_000): what it raises ("none" when it returns)
StroopsRaises(a) ==
    CASE FloatOf(a).kind = "finite"     -> "none"
      [] FloatOf(a).kind = "inf"        -> "OverflowError"
      [] OTHER                          -> "ValueError"

\* Mutant: the backend key guard is missing
RegisterConfigErrorNoKeyGuard(cid, kp) ==
    IF ~Truthy(cid) THEN "contract_not_deployed" ELSE "none"

\* The two configuration guards of register_payment_session
RegisterConfigError(cid, kp) ==
    CASE ~Truthy(cid) -> "contract_not_deployed"
      [] kp = "None"  -> "backend_key_required"
      [] OTHER        -> "none"

\* Mutant: `and` in place of `or`
NotConfiguredBoth(cid, kp) == ~Truthy(cid) /\ kp = "None"

\* The guard shared by deactivate_session and validate_payment
NotConfigured(cid, kp) == ~Truthy(cid) \/ kp = "None"

\* register_payment_session(sid, m, a) with load_account answering `load`
RegisterResult(cid, kp, sid, m, a, load) ==
    LET cfg == RegisterConfigError(cid, kp)
        base == [op |-> "register", session_id |-> sid, amount |-> a,
                 load |-> load, converted |-> FALSE, loaded |-> FALSE,
                 raised |-> "none", ret |-> [status |-> "none"]]
    IN  CASE cfg # "none" ->
               [base EXCEPT !.raised = cfg]
          [] cfg = "none" /\ StroopsRaises(a) # "none" ->
               [base EXCEPT !.converted = TRUE, !.raised = StroopsRaises(a)]
          [] cfg = "none" /\ StroopsRaises(a) = "none" /\ load # "ok" ->
               [base EXCEPT !.converted = TRUE, !.loaded = TRUE, !.raised = load]
          [] OTHER ->
               [base EXCEPT !.converted = TRUE, !.loaded = TRUE,
                            !.ret = [session_id |-> sid, merchant |-> m,
                                     amount |-> a, contract_address |-> cid,
                                     status |-> "registered"]]

\* deactivate_session(sid)
DeactivateResult(cid, kp, sid) ==
    LET base == [op |-> "deactivate", session_id |-> sid, amount |-> "-",
                 load |-> "-", converted |-> FALSE, loaded |-> FALSE,
                 raised |-> "none", ret |-> [status |-> "none"]]
    IN  IF NotConfigured(cid, kp)
           THEN [base EXCEPT !.raised = "not_properly_configured"]
           ELSE [base EXCEPT !.ret = [session_id |-> sid, status |-> "deactivated"]]

\* validate_payment(sid, a, asset)
ValidateResult(cid, kp, sid, a, asset) ==
    LET base == [op |-> "validate", session_id |-> sid, amount |-> a,
                 load |-> "-", converted |-> FALSE, loaded |-> FALSE,
                 raised |-> "none", ret |-> [status |-> "none"]]
    IN  CASE NotConfigured(cid, kp) ->
               [base EXCEPT !.ret = [valid |-> TRUE, validated_by_contract |-> FALSE,
                                     reason |-> "Contract not deployed"]]
          [] ~NotConfigured(cid, kp) /\ StroopsRaises(a) # "none" ->
               [base EXCEPT !.converted = TRUE,
                            !.ret = [valid |-> FALSE, validated_by_contract |-> TRUE,
                                     reason |-> StroopsRaises(a),
                                     error |-> "VALIDATION_FAILED"]]
          [] OTHER ->
               [base EXCEPT !.converted = TRUE,
                            !.ret = [valid |-> TRUE, validated_by_contract |-> TRUE,
                                     session_id |-> sid, amount |-> a,
                                     asset |-> asset, contract_address |-> cid]]

\* get_session_status(sid)
SessionStatusResult(cid, sid) ==
    LET base == [op |-> "get_status", session_id |-> sid, amount |-> "-",
                 load |-> "-", converted |-> FALSE, loaded |-> FALSE,
                 raised |-> "none", ret |-> [status |-> "none"]]
    IN  IF ~Truthy(cid)
           THEN [base EXCEPT !.ret = [value |-> "None"]]
           ELSE [base EXCEPT !.ret = [session_id |-> sid, is_active |-> TRUE,
                                      merchant |-> "GXXX...", amount |-> "10.00"]]

\* Calls made on the service so far
ncalls == call.n

Register ==
    /\ prog = "service" /\ ncalls < MaxCalls
    /\ \E sid \in SessionIds, m \in Merchants, a \in Amounts, load \in LoadResponses :
         call' = [n |-> ncalls + 1,
                  r |-> RegisterResult(contract_id, backend_keypair, sid, m, a, load)]
    /\ UNCHANGED <<prog, contract_id, backend_keypair>>
    /\ UNCHANGED scriptVars

Deactivate ==
    /\ prog = "service" /\ ncalls < MaxCalls
    /\ \E sid \in SessionIds :
         call' = [n |-> ncalls + 1,
                  r |-> DeactivateResult(contract_id, backend_keypair, sid)]
    /\ UNCHANGED <<prog, contract_id, backend_keypair>>
    /\ UNCHANGED scriptVars

Validate ==
    /\ prog = "service" /\ ncalls < MaxCalls
    /\ \E sid \in SessionIds, a \in Amounts, asset \in Assets :
         call' = [n |-> ncalls + 1,
                  r |-> ValidateResult(contract_id, backend_keypair, sid, a, asset)]
    /\ UNCHANGED <<prog, contract_id, backend_keypair>>
    /\ UNCHANGED scriptVars

GetSessionStatus ==
    /\ prog = "service" /\ ncalls < MaxCalls
    /\ \E sid \in SessionIds :
         call' = [n |-> ncalls + 1, r |-> SessionStatusResult(contract_id, sid)]
    /\ UNCHANGED <<prog, contract_id, backend_keypair>>
    /\ UNCHANGED scriptVars

\* get_contract_address()
GetContractAddress ==
    /\ prog = "service" /\ ncalls < MaxCalls
    /\ call' = [n |-> ncalls + 1,
                r |-> [op |-> "get_contract_address", session_id |-> "-",
                       amount |-> "-", load |-> "-", converted |-> FALSE,
                       loaded |-> FALSE, raised |-> "none",
                       ret |-> [value |-> contract_id]]]
    /\ UNCHANGED <<prog, contract_id, backend_keypair>>
    /\ UNCHANGED scriptVars

-----------------------------------------------------------------------------

NoCall == [n |-> 0, r |-> [op |-> "none"]]

\* SorobanValidatorService.__init__ over the possible settings
Init ==
    /\ prog \in {"deploy", "deploy_contract", "deploy_simple", "service"}
    /\ pc = CASE prog = "deploy"          -> "keys"
              [] prog = "deploy_contract" -> "dc_check"
              [] prog = "deploy_simple"   -> "ds_deploy"
              [] OTHER                    -> "idle"
    /\ i = 0 /\ j = 0
    /\ polls1 = 0 /\ polls2 = 0 /\ sends1 = 0 /\ sends2 = 0
    /\ status1 = "NOT_FOUND" /\ status2 = "NOT_FOUND"
    /\ first1 = "none"
    /\ fault2 = FALSE
    /\ exc = "none"
    /\ exitCode = -1
    /\ outcome = "none"
    /\ ret = "unset"
    /\ contract_id \in IF prog = "service" THEN {"None", "", "CID"} ELSE {"None"}
    /\ backend_keypair \in IF prog = "service" THEN {"None", "Keypair"} ELSE {"None"}
    /\ call = NoCall

Next ==
    \/ GetDeployerKeypair
    \/ CheckWasm
    \/ ReadWasm
    \/ LoadAccount
    \/ Prepare
    \/ Send
    \/ Poll
    \/ Load2
    \/ Prepare2
    \/ Send2
    \/ Poll2
    \/ DcCheckWasm
    \/ DcUpload
    \/ DcDeploy
    \/ DsDeploy
    \/ Register
    \/ Deactivate
    \/ Validate
    \/ GetSessionStatus
    \/ GetContractAddress

Spec == Init /\ [][Next]_vars

-----------------------------------------------------------------------------
(* Properties *)

FailedSeen == status1 = "FAILED" \/ status2 = "FAILED"

\* C1: once a status poll of deploy_contract has reported FAILED (upload or
\* contract-creation transaction) the process has ended with a non-zero exit
\* status, and no get_transaction or send_transaction call follows: the FAILED
\* exit is not swallowed by `except Exception` and nothing is retried.
C1_FailedAborts ==
    /\ [](FailedSeen => pc = "done" /\ exitCode > 0)
    /\ [][FailedSeen => UNCHANGED <<polls1, polls2, sends1, sends2>>]_vars

C1_Witness ==
    /\ status2 = "FAILED" /\ first1 = "tainted" /\ polls2 > 1
    /\ pc = "done" /\ exitCode = 1

\* C2: the upload transaction is never polled a 61st time, and a run whose
\* upload polls were all non-terminal (NOT_FOUND or a query error) ends after
\* exactly 60 polls as a timeout with a non-zero exit status.
C2_UploadTimeout ==
    /\ polls1 <= 60
    /\ (pc = "poll" => polls1 < 60)
    /\ (prog = "deploy" /\ pc = "done" /\ polls1 >= 1 /\ status1 = "NOT_FOUND")
          => (polls1 = 60 /\ outcome = "timeout" /\ exitCode > 0)

C2_Witness ==
    /\ pc = "done" /\ outcome = "timeout" /\ exitCode = 1
    /\ status1 = "NOT_FOUND" /\ first1 = "tainted" /\ polls1 = 60

\* C3: a run whose 60 contract-creation polls all returned a non-terminal
\* status ends as a timeout failure with a non-zero exit status.
C3_DeployTimeoutReported ==
    (prog = "deploy" /\ pc = "done" /\ j = 60 /\ polls2 = 60 /\ status2 = "NOT_FOUND")
       => (outcome = "timeout" /\ exitCode > 0)

C5_QueryErrorIsPending ==
    [][ /\ (pc = "poll" /\ exc' = "Exception")
              => (i' = i + 1 /\ (pc' = "poll" \/ i' = 60))
        /\ (pc = "poll2" /\ exc' = "Exception")
              => (j' = j + 1 /\ i' = i /\ (pc' = "poll2" \/ j' = 60))
      ]_vars

DeploymentErrors ==
    {"key_error", "install_error", "deploy_error", "cli_error",
     "error_printed", "deployment_failed_printed"}

\* C6: in all three scripts, a run that ended on a subprocess or network error
\* (deployer key unreadable, failing upload or deploy command, exception
\* escaping deploy_contract) has a non-zero exit status.
C6_ErrorsExitNonZero ==
    (pc = "done" /\ outcome \in DeploymentErrors) => exitCode > 0

Unconfigured == contract_id \in {"None", ""} \/ backend_keypair = "None"

ConfigErrors == {"contract_not_deployed", "backend_key_required"}

\* C7: register_payment_session on a service without contract id or without
\* backend key raises a configuration error, returns nothing, and reaches
\* neither the amount conversion nor the account load.
C7_RegisterUnconfiguredRaises ==
    (call.r.op = "register" /\ Unconfigured)
       => /\ call.r.raised \in ConfigErrors
          /\ call.r.ret.status = "none"
          /\ ~call.r.converted
          /\ ~call.r.loaded

C7_Witness ==
    /\ call.r.op = "register" /\ contract_id = "CID" /\ backend_keypair = "None"
    /\ call.r.raised = "backend_key_required" /\ call.r.amount = "abc"

\* C8: validate_payment on a service without contract id or without backend
\* key returns valid=True, validated_by_contract=False for every input and
\* after any earlier calls; it does not raise.
C8_ValidateFailOpen ==
    (call.r.op = "validate" /\ Unconfigured)
       => /\ call.r.raised = "none"
          /\ call.r.ret.valid = TRUE
          /\ call.r.ret.validated_by_contract = FALSE

C8_Witness ==
    /\ call.r.op = "validate" /\ call.n = 3 /\ call.r.amount = "abc"
    /\ contract_id = "CID" /\ backend_keypair = "None"
    /\ call.r.ret.valid /\ ~call.r.ret.validated_by_contract

\* C9 (as stated): register_payment_session on a configured service always
\* returns status "registered".
C9_ConfiguredAlwaysRegisters ==
    (call.r.op = "register" /\ ~Unconfigured)
       => (call.r.raised = "none" /\ call.r.ret.status = "registered")

\* C9 (amended): register_payment_session on a configured service returns
\* status "registered" when the amount converts to a finite number and the
\* account load succeeds; otherwise it re-raises the conversion or load error,
\* which is not a configuration error.
C9_ConfiguredRegistersOrReraises ==
    (call.r.op = "register" /\ ~Unconfigured)
       => IF FloatOf(call.r.amount).kind = "finite" /\ call.r.load = "ok"
             THEN /\ call.r.raised = "none"
                  /\ call.r.ret.status = "registered"
                  /\ call.r.ret.session_id = call.r.session_id
                  /\ call.r.ret.contract_address = contract_id
             ELSE /\ call.r.raised \notin ConfigErrors \cup {"none"}
                  /\ call.r.ret.status = "none"

C9_Witness ==
    /\ call.r.op = "register" /\ ~Unconfigured
    /\ call.r.amount = "inf" /\ call.r.load = "ok"
    /\ call.r.raised = "OverflowError"

\* C10: with only the status polls answering pending or raising query errors
\* (no other call raising), send_transaction is called at most once for the
\* upload and at most once for the contract creation.
C10_SubmitAtMostOnce ==
    (prog = "deploy" /\ ~fault2) => (sends1 <= 1 /\ sends2 <= 1)

====
